---- MODULE Spec2Model ----
(***************************************************************************)
(* Model of src/main.py: the session-persistence and login-reconciliation  *)
(* logic of PersistentInstagramDMBot (load_session, is_logged_in,          *)
(* smart_login, save_session, run_scheduled_check) and the __main__ block  *)
(* that maps its boolean result to a process exit code.                    *)
(*                                                                         *)
(* Each invocation of the program is one process p \in Procs: it builds a  *)
(* fresh bot (empty processed_messages, no driver), performs one           *)
(* run_scheduled_check and exits.  The cookie file and the session file    *)
(* are the only state shared between invocations.  The browser, the site   *)
(* and the Buffer API are the environment: every wait, lookup, HTTP call   *)
(* and file write has its outcome chosen nondeterministically.             *)
(***************************************************************************)
EXTENDS Integers, Sequences, FiniteSets, TLC

\* ------------------------------------------------------------------ bounds
NumRuns == 2        \* invocations of the program (processes)
MaxCookies == 3     \* entries of a cookie file found on disk by a run
NumIds == 2         \* distinct message ids the inbox can produce
MaxInbox == 2       \* messages one inbox scan can yield

\* --------------------------------------------------------- program constants
NumLoggedInIndicators == 5   \* len(logged_in_indicators)

Procs == 1..NumRuns
Ids == 1..NumIds
SessionCookie == 0                   \* the cookie the site sets on login
CookieNames == 0..MaxCookies
Cookie == [name : CookieNames, ok : BOOLEAN]
Msg == [id : Ids, url : BOOLEAN]     \* url: extract_instagram_url found one (line 230)

\* ------------------------------------------------------------------- state
VARIABLES
    cookies_file,        \* instagram_cookies_<user>.json on disk
    session_file,        \* instagram_session_<user>.pkl on disk
    pc,                  \* pc[p]: the statement process p executes next
    driver,              \* self.driver: "none" | "live" | "quit"
    processed_messages,  \* self.processed_messages
    jar,                 \* cookies held by the browser context
    new_messages,        \* run_scheduled_check's list (the ids), the part not yet iterated
    login_ok,            \* value returned by login_instagram()
    sl_result,           \* value returned by smart_login(): "none" | "true" | "false"
    rsc_result,          \* value returned by run_scheduled_check(), or "raised"
    exit_code,           \* sys.exit code: -1 while running
    \* observation of the run (history, never read by the program)
    obs,                 \* obs[p]: counters and flags of the current run
    pre,                 \* pre[p]: both files as they were when run p started
    persisted,           \* what the last successful save_session stored
    call                 \* the method call made on a bot, when one method is called directly

vars == << cookies_file, session_file, pc, driver, processed_messages, jar,
           new_messages, login_ok, sl_result, rsc_result, exit_code,
           obs, pre, persisted, call >>

\* ------------------------------------------------------------------- files
Missing == [state |-> "missing", data |-> << >>]
Corrupt == [state |-> "corrupt", data |-> << >>]   \* exists; open/load raises
FileOf(seq) == [state |-> "ok", data |-> seq]

Exists(f) == f.state # "missing"                   \* os.path.exists

RECURSIVE SeqsUpTo(_, _)
SeqsUpTo(S, n) ==
    IF n = 0 THEN { << >> }
    ELSE LET shorter == SeqsUpTo(S, n - 1)
         IN  shorter \cup { Append(s, x) : s \in { t \in shorter : Len(t) = n - 1 }, x \in S }

Range(s) == { s[i] : i \in 1..Len(s) }

\* Cookie lists a run can find on disk: entry i is named i, well-formed or not.
InitialCookieLists ==
    { s \in SeqsUpTo(Cookie, MaxCookies) : \A i \in 1..Len(s) : s[i].name = i }

\* list(a_set): the elements once each, in an order the program does not control.
ListsOf(S) == { s \in SeqsUpTo(S, Cardinality(S)) : Len(s) = Cardinality(S) /\ Range(s) = S }

InitialSessionLists == UNION { ListsOf(S) : S \in SUBSET Ids }


\* ---------------------------------------------------------- save_session
\* Where save_session's try block can raise (lines 364-377):
\*   "get_cookies"  driver.get_cookies() or open(cookies_file,'w') raises
\*   "dump_cookies" the cookie file is opened (truncated) and json.dump raises
\*   "session_info" execute_script / current_url / open(session_file,'wb') raises
\*   "dump_session" the session file is opened (truncated) and pickle.dump raises
SaveFaults == { "none", "get_cookies", "dump_cookies", "session_info", "dump_session" }

RECURSIVE SortedNames(_)
SortedNames(S) ==
    IF S = {} THEN << >>
    ELSE LET m == CHOOSE x \in S : \A y \in S : x <= y
         IN  << m >> \o SortedNames(S \ {m})

\* driver.get_cookies(): the browser's cookies as a list of cookie records
GetCookies(j) == LET n == SortedNames(j) IN [i \in 1..Len(n) |-> [name |-> n[i], ok |-> TRUE]]

\* Mutant: the ids found in the session file are kept, the new ones added.
SaveSessionFile_Merge(sf, pmlist, fault) ==
    CASE fault \in { "get_cookies", "dump_cookies", "session_info" } -> sf
      [] fault = "dump_session"                                       -> Corrupt
      [] OTHER -> FileOf(pmlist \o SelectSeq(sf.data, LAMBDA id : id \notin Range(pmlist)))

\* Mutant: the cookie list is dumped before it is fetched, so an empty array is written.
SaveCookiesFile_EmptyArray(cf, j, fault) ==
    CASE fault = "get_cookies"  -> cf
      [] fault = "dump_cookies" -> Corrupt
      [] OTHER                  -> FileOf(<< >>)

\* lines 364-366: the cookie file after the call
SaveCookiesFile(cf, j, fault) ==
    CASE fault = "get_cookies"  -> cf
      [] fault = "dump_cookies" -> Corrupt
      [] OTHER                  -> FileOf(GetCookies(j))

\* lines 369-377: the session file after the call; pmlist is list(self.processed_messages)
SaveSessionFile(sf, pmlist, fault) ==
    CASE fault \in { "get_cookies", "dump_cookies", "session_info" } -> sf
      [] fault = "dump_session"                                       -> Corrupt
      [] OTHER                                                        -> FileOf(pmlist)

\* Mutant: True is returned as soon as the cookie file is written (the
\* return statement placed before the session file is handled).
SaveSession_ReturnAfterCookies(cf, sf, j, pmlist, fault) ==
    [ cookies_file  |-> SaveCookiesFile(cf, j, fault),
      session_file  |-> sf,
      wrote_cookies |-> fault # "get_cookies",
      wrote_session |-> FALSE,
      ret           |-> fault \notin { "get_cookies", "dump_cookies" },
      raised        |-> FALSE ]

\* lines 362-384: the whole call
SaveSession(cf, sf, j, pmlist, fault) ==
    [ cookies_file  |-> SaveCookiesFile(cf, j, fault),
      session_file  |-> SaveSessionFile(sf, pmlist, fault),
      wrote_cookies |-> fault # "get_cookies",
      wrote_session |-> fault \in { "none", "dump_session" },
      ret           |-> fault = "none",       \* line 380 / the except's line 384
      raised        |-> FALSE ]               \* except Exception catches every fault

\* ---------------------------------------------------------- load_session
\* Environment faults inside load_session besides the files themselves:
\*   "nav"      driver.get("https://www.instagram.com") raises (line 400)
\*   "refresh"  driver.refresh() raises (line 415)
LoadFaults == { "none", "nav", "refresh" }

\* Mutant: the first stored id is lost on loading.
LoadedProcessed_DropFirst(data) == IF data = << >> THEN {} ELSE Range(Tail(data))

\* line 394: set(session_data.get('processed_messages', []))
LoadedProcessed(data) == Range(data)

\* line 409: driver.add_cookie(cookie) raises for a malformed entry
AddCookieOk(c) == c.ok

\* Mutant: the first add_cookie failure ends the loop (no per-cookie try).
RECURSIVE InjectCookies_AbortOnBad(_, _)
InjectCookies_AbortOnBad(cookies, acc) ==
    IF cookies = << >> THEN acc
    ELSE LET c == Head(cookies)
             tried == Append(acc.attempted, c.name)
         IN  IF AddCookieOk(c)
             THEN InjectCookies_AbortOnBad(Tail(cookies),
                      [jar |-> acc.jar \cup {c.name}, attempted |-> tried])
             ELSE [jar |-> acc.jar, attempted |-> tried]

\* lines 407-412: for cookie in cookies: try add_cookie except continue.
\* acc.jar: the browser's cookies, acc.attempted: the entries tried, in order.
RECURSIVE InjectCookies(_, _)
InjectCookies(cookies, acc) ==
    IF cookies = << >> THEN acc
    ELSE LET c == Head(cookies)
         IN  InjectCookies(Tail(cookies),
                 [ jar       |-> IF AddCookieOk(c) THEN acc.jar \cup {c.name} ELSE acc.jar,
                   attempted |-> Append(acc.attempted, c.name) ])

\* lines 389-421: the try body. exc: an exception left the body.
LoadSessionBody(sf, cf, pm0, jar0, fault) ==
    LET none == [ pm |-> pm0, jar |-> jar0, attempted |-> << >>,
                  read_session |-> FALSE, read_cookies |-> FALSE,
                  ret |-> FALSE, exc |-> FALSE ]
        s1 == IF ~Exists(sf) THEN none
              ELSE IF sf.state = "corrupt"
                   THEN [none EXCEPT !.read_session = TRUE, !.exc = TRUE]
                   ELSE [none EXCEPT !.read_session = TRUE, !.pm = LoadedProcessed(sf.data)]
    IN  IF s1.exc THEN s1
        ELSE IF ~Exists(cf) THEN s1                                   \* line 421
        ELSE IF fault = "nav" THEN [s1 EXCEPT !.exc = TRUE]           \* line 400
        ELSE IF cf.state = "corrupt"
             THEN [s1 EXCEPT !.read_cookies = TRUE, !.exc = TRUE]     \* line 405
        ELSE LET inj == InjectCookies(cf.data, [jar |-> jar0, attempted |-> << >>])
                 s2  == [s1 EXCEPT !.read_cookies = TRUE, !.jar = inj.jar,
                                   !.attempted = inj.attempted]
             IN  IF fault = "refresh" THEN [s2 EXCEPT !.exc = TRUE]   \* line 415
                 ELSE [s2 EXCEPT !.ret = TRUE]                        \* line 419

\* Mutant: no except clause, an exception in the body leaves load_session.
LoadSession_NoExcept(sf, cf, pm0, jar0, fault) ==
    LET b == LoadSessionBody(sf, cf, pm0, jar0, fault)
    IN  [ pm |-> b.pm, jar |-> b.jar, attempted |-> b.attempted,
          read_session |-> b.read_session, read_cookies |-> b.read_cookies,
          ret |-> b.ret,
          raised |-> b.exc ]

\* lines 388-425: the body under "except Exception: return False"
LoadSession(sf, cf, pm0, jar0, fault) ==
    LET b == LoadSessionBody(sf, cf, pm0, jar0, fault)
    IN  [ pm |-> b.pm, jar |-> b.jar, attempted |-> b.attempted,
          read_session |-> b.read_session, read_cookies |-> b.read_cookies,
          ret |-> IF b.exc THEN FALSE ELSE b.ret,
          raised |-> FALSE ]

\* ----------------------------------------------------------- is_logged_in
WaitOutcomes == { "found", "timeout", "error" }   \* "error": any other exception

\* lines 442-451: the loop over logged_in_indicators, from index i on
RECURSIVE ScanIndicators(_, _)
ScanIndicators(marks, i) ==
    IF i > Len(marks) THEN FALSE          \* lines 454-469 return False either way
    ELSE CASE marks[i] = "found"   -> TRUE
           [] marks[i] = "timeout" -> ScanIndicators(marks, i + 1)
           [] OTHER                -> FALSE      \* propagates to line 471

\* lines 429-473
IsLoggedIn(nav_ok, marks) == IF ~nav_ok THEN FALSE ELSE ScanIndicators(marks, 1)

\* -------------------------------------------------------- login_instagram
\* One scenario: the outcome of every step of the login flow.
LoginScenarioSpace ==
    [ nav : BOOLEAN, accept : WaitOutcomes, username : WaitOutcomes,
      password : BOOLEAN, submit : BOOLEAN,
      save_info : WaitOutcomes, notifications : WaitOutcomes,
      verify : WaitOutcomes ]

\* lines 146-170: handle_login_challenges never raises
HandleLoginChallenges(sc) == TRUE

\* lines 148-166: the second dismissal (lines 159-166) is reached unless the
\* first one (lines 149-157) raised something other than TimeoutException,
\* which goes to the outer except at line 169.
SecondDismissalRuns(sc) == sc.save_info # "error"

\* Mutant: the timeout of the cookie-consent wait is not caught.
LoginInstagram_ConsentRequired(sc) ==
    /\ sc.nav
    /\ sc.accept = "found"
    /\ sc.username = "found"
    /\ sc.password
    /\ sc.submit
    /\ HandleLoginChallenges(sc)
    /\ sc.verify = "found"

\* lines 84-144
LoginInstagram(sc) ==
    /\ sc.nav                              \* line 88
    /\ sc.accept # "error"                 \* lines 92-99: only TimeoutException passes
    /\ sc.username = "found"               \* lines 102-104, inside the outer try only
    /\ sc.password                         \* line 113
    /\ sc.submit                           \* lines 122-123
    /\ HandleLoginChallenges(sc)           \* line 129
    /\ sc.verify = "found"                 \* lines 132-140

\* Scenarios up to what the code can observe: after the step that ends the
\* flow the later outcomes are never looked at, so they are fixed.
LoginScenarios ==
    { sc \in LoginScenarioSpace :
        /\ (~sc.nav => sc.accept = "timeout")
        /\ (sc.accept = "error" \/ ~sc.nav => sc.username = "timeout")
        /\ (sc.username # "found" => ~sc.password)
        /\ (~sc.password => ~sc.submit)
        /\ (~sc.submit => sc.save_info = "timeout")
        /\ (sc.save_info = "error" \/ ~sc.submit => sc.notifications = "timeout")
        /\ (~sc.submit => sc.verify = "timeout") }

\* -------------------------------------------------------- navigate_to_dms
\* lines 172-198
NavigateToDms(click, verify) == click = "found" /\ verify = "found"

\* ------------------------------------------------------- get_new_messages
\* lines 200-248: the scraped candidates whose id is not yet processed, by id
\* (inbox: the ids of the candidates in scan order, an id can occur twice);
\* scan_ok = FALSE: find_elements raised (line 246).
GetNewMessages(inbox, pm, scan_ok) ==
    IF ~scan_ok THEN << >>
    ELSE SelectSeq(inbox, LAMBDA id : id \notin pm)

\* ---------------------------------------------------- add_to_buffer_fixed
HttpOutcomes == { "200", "other", "exception" }

\* Mutant: the response's status code is not looked at.
AddToBufferFixed_IgnoreStatus(m, http) == m.url /\ http # "exception"

\* lines 256-293: the value returned
AddToBufferFixed(m, http) == m.url /\ http = "200"

\* Mutant: the published id replaces the set instead of being added to it.
ProcessedAfterPublish_Replace(pm, m, http) ==
    IF AddToBufferFixed(m, http) THEN {m.id} ELSE pm

\* line 284: processed_messages after the call
ProcessedAfterPublish(pm, m, http) ==
    IF AddToBufferFixed(m, http) THEN pm \cup {m.id} ELSE pm


\* ------------------------------------------------------- the run's record
ObsInit ==
    [ login_calls   |-> 0,        \* invocations of login_instagram
      save_calls    |-> 0,        \* invocations of save_session
      save_ret      |-> "none",   \* what the last save_session returned
      load_ret      |-> "none",   \* what load_session returned
      load_list     |-> << >>,    \* the cookie list load_session read
      attempted     |-> << >>,    \* names passed to add_cookie, in order
      read_session  |-> FALSE,    \* load_session opened the session file
      read_cookies  |-> FALSE,    \* load_session opened the cookie file
      wrote_session |-> FALSE,    \* this run opened the session file for writing
      wrote_cookies |-> FALSE,    \* this run opened the cookie file for writing
      probe         |-> "none",   \* what is_logged_in returned
      nav           |-> "none",   \* what navigate_to_dms returned
      scan_calls    |-> 0,        \* invocations of get_new_messages
      processed_count |-> 0,      \* while the loop runs: the local of lines 519, 523
      published     |-> {},       \* the ids add_to_buffer_fixed returned True for
      after_failed_login |-> 0 ]  \* navigations, scans, publishes, saves after a failed login

Bool(b) == IF b THEN "true" ELSE "false"

\* The record after a save_session call whose outcome is r.
ObsAfterSave(o, r) ==
    [o EXCEPT !.save_calls = @ + 1,
              !.save_ret = Bool(r.ret),
              !.wrote_session = @ \/ r.wrote_session,
              !.wrote_cookies = @ \/ r.wrote_cookies]

PersistedAfterSave(ps, r, pm) ==
    IF r.ret THEN [valid |-> TRUE, pm |-> pm]
    ELSE IF r.wrote_session THEN [valid |-> FALSE, pm |-> {}]
    ELSE ps

\* The snapshot taken when a run starts: both files, and the runs already over.
PreInit == [cookies |-> Missing, session |-> Missing, exited |-> {}]

\* ------------------------------------------------------------------- Init
\* Every process before it starts: the fields set by __init__ (lines 48-59, 298-301).
InitProcs ==
    /\ pc = [p \in Procs |-> "idle"]
    /\ driver = [p \in Procs |-> "none"]                 \* line 53
    /\ processed_messages = [p \in Procs |-> {}]         \* line 54
    /\ jar = [p \in Procs |-> {}]
    /\ new_messages = [p \in Procs |-> << >>]
    /\ login_ok = [p \in Procs |-> FALSE]
    /\ sl_result = [p \in Procs |-> "none"]
    /\ rsc_result = [p \in Procs |-> "none"]
    /\ exit_code = [p \in Procs |-> -1]
    /\ obs = [p \in Procs |-> ObsInit]
    /\ pre = [p \in Procs |-> PreInit]
    /\ persisted = [valid |-> FALSE, pm |-> {}]

NoCall == [fn |-> "none"]

\* A fresh installation: neither file exists.
Init ==
    /\ cookies_file = Missing
    /\ session_file = Missing
    /\ InitProcs
    /\ call = NoCall

\* Any content of the two files: absent, unreadable, or a list.
InitAnyFiles ==
    /\ cookies_file \in { Missing, Corrupt } \cup { FileOf(s) : s \in InitialCookieLists }
    /\ session_file \in { Missing, Corrupt } \cup { FileOf(s) : s \in InitialSessionLists }
    /\ InitProcs
    /\ call = NoCall

\* ---------------------------------------------------------------- actions
\* __main__, lines 569-598: configuration check, bot construction, Buffer test.
Main(p) ==
    /\ pc[p] = "idle"
    /\ \E missing_vars \in BOOLEAN, buffer_ok \in BOOLEAN :
         IF missing_vars \/ ~buffer_ok
         THEN /\ pc' = [pc EXCEPT ![p] = "exited"]              \* lines 583, 596
              /\ exit_code' = [exit_code EXCEPT ![p] = 1]
              /\ pre' = pre
         ELSE /\ pc' = [pc EXCEPT ![p] = "setup"]               \* line 599
              /\ exit_code' = exit_code
              /\ pre' = [pre EXCEPT ![p] = [cookies |-> cookies_file, session |-> session_file,
                                            exited |-> { q \in Procs : pc[q] = "exited" }]]
    /\ UNCHANGED << call, cookies_file, session_file, driver, processed_messages, jar,
                    new_messages, login_ok, sl_result, rsc_result, obs, persisted >>

\* smart_login line 479: setup_driver (lines 303-358).
\*   "no_driver"  an exception before self.driver is assigned (line 353)
\*   "stealth"    an exception in the execute_script calls (lines 356-358)
SetupDriver(p) ==
    /\ pc[p] = "setup"
    /\ \E outcome \in { "ok", "no_driver", "stealth" } :
         /\ driver' = [driver EXCEPT ![p] = IF outcome = "no_driver" THEN "none" ELSE "live"]
         /\ IF outcome = "ok"
            THEN /\ pc' = [pc EXCEPT ![p] = "load"]
                 /\ sl_result' = sl_result
            ELSE /\ pc' = [pc EXCEPT ![p] = "sl_ret"]            \* lines 498-500
                 /\ sl_result' = [sl_result EXCEPT ![p] = "false"]
    /\ UNCHANGED << call, cookies_file, session_file, processed_messages, jar, new_messages,
                    login_ok, rsc_result, exit_code, obs, pre, persisted >>

\* smart_login line 482: session_loaded = self.load_session()
LoadSessionStep(p) ==
    /\ pc[p] = "load"
    /\ \E fault \in LoadFaults :
         LET r == LoadSession(session_file, cookies_file, processed_messages[p], jar[p], fault)
         IN  /\ processed_messages' = [processed_messages EXCEPT ![p] = r.pm]
             /\ jar' = [jar EXCEPT ![p] = r.jar]
             /\ obs' = [obs EXCEPT ![p].load_ret = IF r.raised THEN "raised" ELSE Bool(r.ret),
                                   ![p].load_list = IF r.read_cookies THEN cookies_file.data ELSE << >>,
                                   ![p].attempted = r.attempted,
                                   ![p].read_session = r.read_session,
                                   ![p].read_cookies = r.read_cookies]
             /\ IF r.raised
                THEN /\ pc' = [pc EXCEPT ![p] = "sl_ret"]        \* lines 498-500
                     /\ sl_result' = [sl_result EXCEPT ![p] = "false"]
                ELSE /\ pc' = [pc EXCEPT ![p] = "probe"]
                     /\ sl_result' = sl_result
    /\ UNCHANGED << call, cookies_file, session_file, driver, new_messages, login_ok,
                    rsc_result, exit_code, pre, persisted >>

\* Mutant: the probe's result is ignored and the login flow always runs.
SmartLoginAfterProbe_AlwaysLogin(p, logged) ==
    /\ pc' = [pc EXCEPT ![p] = "login"]
    /\ sl_result' = sl_result

\* Mutant: a negative probe ends smart_login with False, without a login attempt.
SmartLoginAfterProbe_FailFast(p, logged) ==
    /\ pc' = [pc EXCEPT ![p] = "sl_ret"]
    /\ sl_result' = [sl_result EXCEPT ![p] = Bool(logged)]

\* smart_login lines 485-490: the branch on is_logged_in's result.
SmartLoginAfterProbe(p, logged) ==
    IF logged
    THEN /\ pc' = [pc EXCEPT ![p] = "sl_ret"]                    \* line 487
         /\ sl_result' = [sl_result EXCEPT ![p] = "true"]
    ELSE /\ pc' = [pc EXCEPT ![p] = "login"]                     \* line 490
         /\ sl_result' = sl_result

\* smart_login line 485: the call self.is_logged_in()
ProbeStep(p) ==
    /\ pc[p] = "probe"
    /\ \E nav_ok \in BOOLEAN, marks \in [1..NumLoggedInIndicators -> WaitOutcomes] :
         LET logged == IsLoggedIn(nav_ok, marks)
         IN  /\ obs' = [obs EXCEPT ![p].probe = Bool(logged)]
             /\ SmartLoginAfterProbe(p, logged)
    /\ UNCHANGED << call, cookies_file, session_file, driver, processed_messages, jar,
                    new_messages, login_ok, rsc_result, exit_code, pre, persisted >>

\* smart_login line 491: the call self.login_instagram().
\* A verified login leaves the site's session cookie in the browser.
LoginStep(p) ==
    /\ pc[p] = "login"
    /\ \E sc \in LoginScenarios :
         LET ok == LoginInstagram(sc)
         IN  /\ login_ok' = [login_ok EXCEPT ![p] = ok]
             /\ jar' = [jar EXCEPT ![p] = IF ok THEN @ \cup {SessionCookie} ELSE @]
    /\ obs' = [obs EXCEPT ![p].login_calls = @ + 1]
    /\ pc' = [pc EXCEPT ![p] = "login_ret"]
    /\ UNCHANGED << call, cookies_file, session_file, driver, processed_messages, new_messages,
                    sl_result, rsc_result, exit_code, pre, persisted >>

\* Mutant: save_session is called before the login result is looked at.
SmartLoginAfterLogin_SaveFirst(p, fault, pmlist) ==
    LET r == SaveSession(cookies_file, session_file, jar[p], pmlist, fault)
    IN  /\ cookies_file' = r.cookies_file
        /\ session_file' = r.session_file
        /\ obs' = [obs EXCEPT ![p] = ObsAfterSave(@, r)]
        /\ persisted' = PersistedAfterSave(persisted, r, processed_messages[p])
        /\ sl_result' = [sl_result EXCEPT ![p] = Bool(login_ok[p])]

\* Mutant: a successful login returns True without calling save_session.
SmartLoginAfterLogin_NoSave(p, fault, pmlist) ==
    /\ sl_result' = [sl_result EXCEPT ![p] = Bool(login_ok[p])]
    /\ UNCHANGED << call, cookies_file, session_file, obs, persisted >>

\* smart_login lines 491-496: the branch on login_instagram's result.
\* The value save_session returns (line 493) is dropped.
SmartLoginAfterLogin(p, fault, pmlist) ==
    IF login_ok[p]
    THEN LET r == SaveSession(cookies_file, session_file, jar[p], pmlist, fault)
         IN  /\ cookies_file' = r.cookies_file
             /\ session_file' = r.session_file
             /\ obs' = [obs EXCEPT ![p] = ObsAfterSave(@, r)]
             /\ persisted' = PersistedAfterSave(persisted, r, processed_messages[p])
             /\ sl_result' = [sl_result EXCEPT ![p] = "true"]    \* line 494
    ELSE /\ sl_result' = [sl_result EXCEPT ![p] = "false"]       \* line 496
         /\ UNCHANGED << cookies_file, session_file, obs, persisted >>

AfterLogin(p) ==
    /\ pc[p] = "login_ret"
    /\ \E fault \in SaveFaults, pmlist \in ListsOf(processed_messages[p]) :
         SmartLoginAfterLogin(p, fault, pmlist)
    /\ pc' = [pc EXCEPT ![p] = "sl_ret"]
    /\ UNCHANGED << call, driver, processed_messages, jar, new_messages, login_ok,
                    rsc_result, exit_code, pre >>

\* run_scheduled_check lines 508-510: if not self.smart_login(): return False
CheckAuth(p) ==
    /\ pc[p] = "sl_ret"
    /\ IF sl_result[p] = "true"
       THEN /\ pc' = [pc EXCEPT ![p] = "nav"]
            /\ rsc_result' = rsc_result
       ELSE /\ pc' = [pc EXCEPT ![p] = "finally"]
            /\ rsc_result' = [rsc_result EXCEPT ![p] = "false"]
    /\ UNCHANGED << call, cookies_file, session_file, driver, processed_messages, jar,
                    new_messages, login_ok, sl_result, exit_code, obs, pre, persisted >>

\* Work done although this run's interactive login failed.
Late(p) == IF obs[p].login_calls > 0 /\ ~login_ok[p] THEN 1 ELSE 0

\* run_scheduled_check lines 513-515: if not self.navigate_to_dms(): return False
NavigateStep(p) ==
    /\ pc[p] = "nav"
    /\ \E click \in WaitOutcomes, verify \in WaitOutcomes :
         /\ IF NavigateToDms(click, verify)
            THEN /\ pc' = [pc EXCEPT ![p] = "scan"]
                 /\ rsc_result' = rsc_result
            ELSE /\ pc' = [pc EXCEPT ![p] = "finally"]
                 /\ rsc_result' = [rsc_result EXCEPT ![p] = "false"]
         /\ obs' = [obs EXCEPT ![p].after_failed_login = @ + Late(p),
                               ![p].nav = Bool(NavigateToDms(click, verify))]
    /\ UNCHANGED << call, cookies_file, session_file, driver, processed_messages, jar,
                    new_messages, login_ok, sl_result, exit_code, pre, persisted >>

\* run_scheduled_check lines 518-519: new_messages = self.get_new_messages()
ScanStep(p) ==
    /\ pc[p] = "scan"
    /\ \E inbox \in SeqsUpTo(Ids, MaxInbox), scan_ok \in BOOLEAN :
         new_messages' = [new_messages EXCEPT
                             ![p] = GetNewMessages(inbox, processed_messages[p], scan_ok)]
    /\ pc' = [pc EXCEPT ![p] = "publish"]
    /\ obs' = [obs EXCEPT ![p].after_failed_login = @ + Late(p),
                          ![p].scan_calls = @ + 1]
    /\ UNCHANGED << call, cookies_file, session_file, driver, processed_messages, jar,
                    login_ok, sl_result, rsc_result, exit_code, pre, persisted >>

\* run_scheduled_check lines 521-524: one iteration of the loop. The message's
\* 'url' (set at line 230, None when the text holds no post link) is first
\* looked at here, by add_to_buffer_fixed.
PublishStep(p) ==
    /\ pc[p] = "publish"
    /\ new_messages[p] # << >>
    /\ \E has_url \in BOOLEAN, http \in HttpOutcomes :
         LET message == [id |-> Head(new_messages[p]), url |-> has_url]
             ok == AddToBufferFixed(message, http)
         IN  /\ processed_messages' = [processed_messages EXCEPT
                    ![p] = ProcessedAfterPublish(@, message, http)]
             /\ obs' = [obs EXCEPT
                    ![p].after_failed_login = @ + Late(p),
                    ![p].processed_count = IF ok THEN @ + 1 ELSE @,           \* line 523
                    ![p].published = IF ok THEN @ \cup {message.id} ELSE @]
    /\ new_messages' = [new_messages EXCEPT ![p] = Tail(@)]
    /\ UNCHANGED << call, cookies_file, session_file, pc, driver, jar, login_ok, sl_result,
                    rsc_result, exit_code, pre, persisted >>

\* run_scheduled_check lines 527-530: save_session() after the loop, return True.
FinalSave(p) ==
    /\ pc[p] = "publish"
    /\ new_messages[p] = << >>
    /\ \E fault \in SaveFaults, pmlist \in ListsOf(processed_messages[p]) :
         LET r == SaveSession(cookies_file, session_file, jar[p], pmlist, fault)
         IN  /\ cookies_file' = r.cookies_file
             /\ session_file' = r.session_file
             /\ obs' = [obs EXCEPT ![p] = [ObsAfterSave(@, r) EXCEPT
                                              !.after_failed_login = @ + Late(p),
                                              !.processed_count = 0]]
             /\ persisted' = PersistedAfterSave(persisted, r, processed_messages[p])
    /\ rsc_result' = [rsc_result EXCEPT ![p] = "true"]
    /\ pc' = [pc EXCEPT ![p] = "finally"]
    /\ UNCHANGED << call, driver, processed_messages, jar, new_messages, login_ok,
                    sl_result, exit_code, pre >>

\* Mutant: the browser is closed at the end of the try block instead of in a
\* finally clause, so only a run that got to "return True" closes it.
Finally_QuitOnSuccessOnly(p) ==
    /\ pc[p] = "finally"
    /\ driver' = [driver EXCEPT ![p] = IF @ = "live" /\ rsc_result[p] = "true"
                                       THEN "quit" ELSE @]
    /\ pc' = [pc EXCEPT ![p] = "exit"]
    /\ UNCHANGED << call, cookies_file, session_file, processed_messages, jar, new_messages,
                    login_ok, sl_result, rsc_result, exit_code, obs, pre, persisted >>

\* run_scheduled_check lines 535-538: finally: if self.driver: self.driver.quit().
\* An exception raised by quit() leaves run_scheduled_check.
Finally(p) ==
    /\ pc[p] = "finally"
    /\ IF driver[p] = "live"
       THEN \E quit_ok \in BOOLEAN :
              /\ driver' = [driver EXCEPT ![p] = "quit"]
              /\ rsc_result' = [rsc_result EXCEPT ![p] = IF quit_ok THEN @ ELSE "raised"]
       ELSE UNCHANGED << driver, rsc_result >>
    /\ pc' = [pc EXCEPT ![p] = "exit"]
    /\ UNCHANGED << call, cookies_file, session_file, processed_messages, jar, new_messages,
                    login_ok, sl_result, exit_code, obs, pre, persisted >>

\* Mutant: only a returned False gives exit code 1.
ExitCode_ZeroUnlessFalse(result) == IF result = "false" THEN 1 ELSE 0

\* __main__ lines 599-606: sys.exit(0) if success else sys.exit(1); an
\* exception that leaves run_scheduled_check ends the interpreter with status 1.
ExitCode(result) == IF result = "true" THEN 0 ELSE 1

\* __main__ lines 599-606: the exit code; the process and its memory are gone.
Exit(p) ==
    /\ pc[p] = "exit"
    /\ exit_code' = [exit_code EXCEPT ![p] = ExitCode(rsc_result[p])]
    /\ pc' = [pc EXCEPT ![p] = "exited"]
    /\ driver' = [driver EXCEPT ![p] = "none"]
    /\ processed_messages' = [processed_messages EXCEPT ![p] = {}]
    /\ jar' = [jar EXCEPT ![p] = {}]
    /\ new_messages' = [new_messages EXCEPT ![p] = << >>]
    /\ login_ok' = [login_ok EXCEPT ![p] = FALSE]
    /\ sl_result' = [sl_result EXCEPT ![p] = "none"]
    /\ rsc_result' = [rsc_result EXCEPT ![p] = "none"]
    /\ obs' = [obs EXCEPT ![p] = ObsInit]
    /\ pre' = [pre EXCEPT ![p] = PreInit]
    /\ UNCHANGED << call, cookies_file, session_file, persisted >>

\* ----------------------------------------------------------- scheduling
\* The scheduler guarantees non-overlapping runs (spec section 5): run p
\* starts when every earlier run has exited.
NonOverlapping(p) == \A q \in Procs : q < p => pc[q] = "exited"

Step(p) ==
    \/ SetupDriver(p)
    \/ LoadSessionStep(p)
    \/ ProbeStep(p)
    \/ LoginStep(p)
    \/ AfterLogin(p)
    \/ CheckAuth(p)
    \/ NavigateStep(p)
    \/ ScanStep(p)
    \/ PublishStep(p)
    \/ FinalSave(p)
    \/ Finally(p)
    \/ Exit(p)

Next == \E p \in Procs : (NonOverlapping(p) /\ Main(p)) \/ Step(p)

\* The life of an installation: runs one after the other, from no files.
Spec == Init /\ [][Next]_vars

\* One run, started on any content of the two files.
NextRun == Main(1) \/ Step(1)

SpecRun == InitAnyFiles /\ [][NextRun]_vars

\* Two invocations started by a caller that does not wait for the first to
\* exit (spec section 5: nothing in the program prevents it, there is no lock).
\* The second is started when the first has iterated its messages and has
\* not yet called save_session (line 527), or, as the scheduler would, when
\* the first has exited; the first, the slower one, takes its next step when
\* the second has left run_scheduled_check.
InRun(p) == pc[p] \notin { "idle", "exit", "exited" }

BeforeFinalSave(p) == pc[p] = "publish" /\ new_messages[p] = << >>

NextOverlap ==
    \/ Main(1)
    \/ ~InRun(2) /\ Step(1)
    \/ (BeforeFinalSave(1) \/ NonOverlapping(2)) /\ Main(2)
    \/ Step(2)

SpecOverlap == Init /\ [][NextOverlap]_vars

\* ------------------------------------------------- methods called one by one
\* A freshly built bot on which one method is called directly, on inputs
\* chosen freely; 'call' keeps the inputs and the outcome of that call.
ProgramIdle ==
    UNCHANGED << cookies_file, session_file, pc, driver, processed_messages, jar,
                 new_messages, login_ok, sl_result, rsc_result, exit_code,
                 obs, pre, persisted >>

\* self.is_logged_in() on a page where the wait for marker i would end as marks[i]
CallIsLoggedIn ==
    /\ call.fn = "none"
    /\ \E nav_ok \in BOOLEAN, marks \in [1..NumLoggedInIndicators -> WaitOutcomes] :
         call' = [ fn |-> "is_logged_in", nav_ok |-> nav_ok, marks |-> marks,
                   ret |-> IsLoggedIn(nav_ok, marks) ]
    /\ ProgramIdle

\* self.login_instagram() in scenario sc
CallLoginInstagram ==
    /\ call.fn = "none"
    /\ \E sc \in LoginScenarios :
         call' = [ fn |-> "login_instagram", sc |-> sc,
                   ret |-> LoginInstagram(sc),
                   second_ran |-> sc.submit /\ SecondDismissalRuns(sc) ]
    /\ ProgramIdle

\* Contents either file can have before a save_session call.
FilesBefore == { Missing, Corrupt, FileOf(<< >>) }

\* self.save_session() with browser cookies j and processed_messages listed as pmlist
CallSaveSession ==
    /\ call.fn = "none"
    /\ \E cf \in FilesBefore, sf \in FilesBefore, j \in SUBSET CookieNames,
          pmlist \in InitialSessionLists, fault \in SaveFaults :
         call' = [ fn |-> "save_session", cf |-> cf, sf |-> sf, jar |-> j,
                   pmlist |-> pmlist, fault |-> fault,
                   r |-> SaveSession(cf, sf, j, pmlist, fault) ]
    /\ ProgramIdle

\* self.add_to_buffer_fixed(message) on a bot holding processed_messages pm
CallAddToBufferFixed ==
    /\ call.fn = "none"
    /\ \E message \in Msg, pm \in SUBSET Ids, http \in HttpOutcomes :
         call' = [ fn |-> "add_to_buffer_fixed", message |-> message, pm |-> pm,
                   http |-> http,
                   ret |-> AddToBufferFixed(message, http),
                   pm_after |-> ProcessedAfterPublish(pm, message, http) ]
    /\ ProgramIdle

\* bot.run_scheduled_check() (line 599); its steps are those of Step(1).
CallRunScheduledCheck ==
    /\ call.fn = "none"
    /\ pc[1] = "idle"
    /\ call' = [fn |-> "run_scheduled_check"]
    /\ pc' = [pc EXCEPT ![1] = "setup"]
    /\ pre' = [pre EXCEPT ![1] = [cookies |-> cookies_file, session |-> session_file,
                                  exited |-> {}]]
    /\ UNCHANGED << cookies_file, session_file, driver, processed_messages, jar,
                    new_messages, login_ok, sl_result, rsc_result, exit_code,
                    obs, persisted >>

NextCalls ==
    \/ CallIsLoggedIn
    \/ CallLoginInstagram
    \/ CallSaveSession
    \/ CallAddToBufferFixed
    \/ CallRunScheduledCheck
    \/ Step(1)

SpecCalls == Init /\ [][NextCalls]_vars


\* =================================================================== claims
\* p's current run has left smart_login with the given value.
Returned(p, v) == sl_result[p] = v

\* p's current run went through the interactive login.
ViaLogin(p) == obs[p].login_calls > 0

WellFormedNames(list) == { list[i].name : i \in { k \in 1..Len(list) : list[k].ok } }
NamesInOrder(list) == [i \in 1..Len(list) |-> list[i].name]

\* ---- C1
\* C1: whenever is_logged_in returned True after load_session, login_instagram
\* has been called zero times in that run and smart_login has returned True,
\* with or without a cookie file.
C1_ValidSessionSkipsLogin ==
    \A p \in Procs :
        obs[p].probe = "true" => obs[p].login_calls = 0 /\ Returned(p, "true")

\* A run that found a readable cookie file, probed True and went on to the DMs.
C1_Witness ==
    \E p \in Procs :
        /\ obs[p].probe = "true"
        /\ pre[p].cookies.state = "ok" /\ obs[p].read_cookies
        /\ pc[p] = "nav"

\* ---- C2
\* C2: cookie file present, is_logged_in False and login_instagram failed:
\* smart_login returns False and, up to the end of the run, both files hold
\* exactly what they held when the run started.
FailedLoginWithCookies(p) ==
    /\ Exists(pre[p].cookies)
    /\ obs[p].probe = "false"
    /\ ViaLogin(p) /\ ~login_ok[p]

C2_FailedLoginPreservesFiles ==
    \A p \in Procs :
        FailedLoginWithCookies(p) =>
            /\ cookies_file = pre[p].cookies
            /\ session_file = pre[p].session
            /\ ~obs[p].wrote_cookies /\ ~obs[p].wrote_session
            /\ pc[p] # "login_ret" => Returned(p, "false")

\* Such a run at its end, started on two readable files.
C2_Witness ==
    \E p \in Procs :
        /\ FailedLoginWithCookies(p)
        /\ pre[p].cookies.state = "ok" /\ pre[p].session.state = "ok"
        /\ pre[p].session.data # << >>
        /\ pc[p] = "exit"

\* ---- C3
\* The state right after smart_login returned True through a successful
\* login on a fresh account (neither file present when the run started).
FreshLoginReturned(p) ==
    /\ pc[p] = "sl_ret"
    /\ ~Exists(pre[p].cookies) /\ ~Exists(pre[p].session)
    /\ ViaLogin(p) /\ login_ok[p] /\ Returned(p, "true")

BothFilesFresh ==
    /\ cookies_file.state = "ok" /\ cookies_file.data # << >>
    /\ session_file.state = "ok" /\ session_file.data = << >>

\* C3 as claimed: fresh account, login succeeded and smart_login returned True:
\* both files exist, the cookie array is non-empty, processed_messages is [].
C3_Original ==
    \A p \in Procs : FreshLoginReturned(p) => BothFilesFresh

\* C3 amended: the same, provided the save_session call made by smart_login
\* returned True; that call is always made, exactly once.
C3_FreshLoginPersistsWhenSaveSucceeds ==
    \A p \in Procs :
        FreshLoginReturned(p) =>
            /\ obs[p].save_calls = 1
            /\ obs[p].save_ret = "true" => BothFilesFresh

C3_Witness ==
    \E p \in Procs :
        FreshLoginReturned(p) /\ obs[p].save_ret = "true" /\ BothFilesFresh

\* ---- C4
\* The state right after smart_login returned True through the login path.
LoginReturnedTrue(p) == pc[p] = "sl_ret" /\ ViaLogin(p) /\ Returned(p, "true")

BothPersisted(p) ==
    /\ cookies_file = FileOf(GetCookies(jar[p]))
    /\ session_file.state = "ok"
    /\ LoadedProcessed(session_file.data) = processed_messages[p]

\* C4 as claimed: smart_login returns True after an interactive login only
\* with both files persisted.
C4_Original ==
    \A p \in Procs : LoginReturnedTrue(p) => BothPersisted(p)

\* C4 amended: smart_login returns True after an interactive login only
\* after one save_session call; both files are persisted when that call
\* returned True, and its failure does not change smart_login's result.
C4_LoginSavesBeforeReturn ==
    \A p \in Procs :
        LoginReturnedTrue(p) =>
            /\ obs[p].save_calls = 1
            /\ obs[p].save_ret = "true" => BothPersisted(p)

\* smart_login returned True after a login and a save_session that stored
\* the ids loaded from an earlier session file.
C4_Witness ==
    \E p \in Procs :
        /\ LoginReturnedTrue(p)
        /\ obs[p].save_ret = "true" /\ BothPersisted(p)
        /\ processed_messages[p] # {}

\* ---- C5
\* The state of the spec's per-run machine that process p is in.
SLState(p) ==
    CASE pc[p] \in { "setup", "load" } -> "Start"
      [] pc[p] = "probe"               -> "Probing"
      [] pc[p] = "login"               -> "Unauthenticated"
      [] pc[p] = "login_ret"           -> "InteractiveLogin"
      [] sl_result[p] = "true"         -> "Authenticated"
      [] sl_result[p] = "false"        -> "Failed"
      [] OTHER                         -> "NoRun"     \* not started, or exited

RunBoundary ==
    { << "NoRun", "Start" >>, << "Authenticated", "NoRun" >>, << "Failed", "NoRun" >> }

ClaimedTransitions ==
    { << "Start", "Probing" >>,
      << "Probing", "Authenticated" >>,
      << "Probing", "Unauthenticated" >>,
      << "Unauthenticated", "InteractiveLogin" >>,
      << "InteractiveLogin", "Authenticated" >>,
      << "InteractiveLogin", "Failed" >> }

MovesWithin(T) ==
    \A p \in Procs :
        SLState(p)' # SLState(p) => << SLState(p), SLState(p)' >> \in T \cup RunBoundary

\* C5 as claimed: a run moves only along Start -> Probing -> Authenticated or
\* Start -> Probing -> Unauthenticated -> InteractiveLogin -> {Authenticated,
\* Failed}; Failed is never entered from Start or Probing.
C5_Original == [][MovesWithin(ClaimedTransitions)]_vars

\* Inside smart_login the next statement can always be executed: with the
\* transitions acyclic, a run that keeps executing reaches a terminal state.
NeverStuck ==
    \A p \in Procs :
        SLState(p) \notin { "NoRun", "Authenticated", "Failed" } => ENABLED Step(p)

\* C5 amended: as claimed, with one more transition, Start -> Failed, taken
\* when setup_driver raises; Failed is never entered from Probing, and the
\* two terminal states are left only by the end of the run.
C5_StateMachine ==
    /\ [][MovesWithin(ClaimedTransitions \cup { << "Start", "Failed" >> })]_vars
    /\ []NeverStuck

\* A run that failed in the interactive login, and never before it.
C5_Witness ==
    \E p \in Procs :
        SLState(p) = "Failed" /\ obs[p].probe = "false" /\ obs[p].login_calls = 1

\* ---- C6
\* C6: login_instagram is invoked at most once per run; after a failed
\* login smart_login returns False, run_scheduled_check returns False and
\* no navigation, scan, publish or save_session follows.
FailedLogin(p) == ViaLogin(p) /\ ~login_ok[p] /\ pc[p] # "login_ret"

C6_Original ==
    \A p \in Procs :
        /\ obs[p].login_calls <= 1
        /\ FailedLogin(p) =>
              /\ Returned(p, "false")
              /\ obs[p].after_failed_login = 0 /\ obs[p].save_calls = 0
              /\ pc[p] \in { "sl_ret", "finally", "exit" }
              /\ pc[p] = "exit" => rsc_result[p] = "false"

\* ---- C7
\* C7: every write of either file is preceded, in the same run, by
\* load_session having read that file if it existed; a missing file never
\* makes load_session raise or return through its except clause.
ReadBeforeWrite(p) ==
    /\ obs[p].wrote_cookies /\ Exists(pre[p].cookies) => obs[p].read_cookies
    /\ obs[p].wrote_session /\ Exists(pre[p].session) => obs[p].read_session

C7_Original ==
    \A p \in Procs :
        /\ ReadBeforeWrite(p)
        /\ obs[p].load_ret # "raised"

\* ---- C8
\* C8: load_session returns normally for every state of the two files; a
\* missing or corrupt session file leaves processed_messages empty, a missing
\* or corrupt cookie file injects no cookie.
C8_LoadSessionFailsSoft ==
    \A p \in Procs :
        /\ obs[p].load_ret # "raised"
        /\ pc[p] = "probe" =>
              /\ obs[p].load_ret \in { "true", "false" }
              /\ pre[p].session.state # "ok" => processed_messages[p] = {}
              /\ pre[p].cookies.state # "ok" => jar[p] = {} /\ obs[p].attempted = << >>
              /\ obs[p].load_ret = "true" => pre[p].cookies.state = "ok"

\* load_session has returned on a readable session file and a corrupt cookie file.
C8_Witness ==
    \E p \in Procs :
        /\ pc[p] = "probe"
        /\ pre[p].session.state = "ok" /\ pre[p].session.data # << >>
        /\ pre[p].cookies.state = "corrupt"
        /\ obs[p].read_cookies /\ obs[p].load_ret = "false"
        /\ processed_messages[p] # {}

\* ---- C9
\* C9: after a save_session that returned True and no later write of the
\* session file, the next run's load_session yields the processed_messages
\* set that save_session was called with.
C9_RoundTrip ==
    \A p \in Procs :
        pc[p] = "probe" /\ persisted.valid => processed_messages[p] = persisted.pm

\* A later run has loaded two ids that an earlier run saved.
C9_Witness ==
    \E p \in Procs :
        /\ pc[p] = "probe" /\ persisted.valid
        /\ Cardinality(persisted.pm) >= 2
        /\ processed_messages[p] = persisted.pm

\* ---- C10
\* C10: load_session passes every entry of the cookie list it read to
\* add_cookie, in file order, and the browser ends up with exactly the
\* well-formed entries.
C10_InjectsEveryWellFormedCookie ==
    \A p \in Procs :
        obs[p].read_cookies /\ pre[p].cookies.state = "ok" =>
            /\ obs[p].attempted = NamesInOrder(obs[p].load_list)
            /\ pc[p] = "probe" => jar[p] = WellFormedNames(obs[p].load_list)

\* A list with a malformed entry between two well-formed ones was injected.
C10_Witness ==
    \E p \in Procs :
        /\ pc[p] = "probe" /\ obs[p].read_cookies
        /\ \E i, j, k \in 1..Len(obs[p].load_list) :
              /\ i < j /\ j < k
              /\ obs[p].load_list[i].ok /\ ~obs[p].load_list[j].ok /\ obs[p].load_list[k].ok
        /\ Cardinality(jar[p]) >= 2

\* ---- C11
\* Some logged-in marker is on the page: the wait for it would find it.
MarkerPresent(marks) == \E i \in DOMAIN marks : marks[i] = "found"

\* C11: on a page it could open, is_logged_in returns True if and only if
\* at least one of the five markers is present, whatever the position of the
\* marker in the list and whatever happens while another marker is checked.
C11_Original ==
    call.fn = "is_logged_in" /\ call.nav_ok =>
        (call.ret <=> MarkerPresent(call.marks))

\* ---- C12
\* No step of the flow raised anything other than a wait's TimeoutException
\* (the dismissals of handle_login_challenges aside, which swallow everything).
OnlyTimeouts(sc) ==
    /\ sc.nav /\ sc.accept # "error" /\ sc.username # "error"
    /\ sc.username = "found" => sc.password /\ sc.submit /\ sc.verify # "error"

\* The final verification wait was reached and timed out.
VerifyTimedOut(sc) == sc.submit /\ sc.verify = "timeout"

\* C12 as claimed: when waits only time out, login_instagram returns False
\* only if the final verification wait timed out.
C12_Original ==
    call.fn = "login_instagram" /\ OnlyTimeouts(call.sc) /\ ~call.ret =>
        VerifyTimedOut(call.sc)

\* C12 amended: when waits only time out, login_instagram returns False
\* exactly when the username-field wait or the final verification wait timed
\* out; the timeouts of the cookie-consent wait and of the two challenge
\* dialogs never change the result.
C12_TimeoutsThatFailLogin ==
    call.fn = "login_instagram" /\ OnlyTimeouts(call.sc) =>
        (~call.ret <=> call.sc.username = "timeout" \/ VerifyTimedOut(call.sc))

\* A login that succeeded with no consent button and neither challenge dialog.
C12_Witness ==
    /\ call.fn = "login_instagram" /\ call.ret
    /\ call.sc.accept = "timeout"
    /\ call.sc.save_info = "timeout" /\ call.sc.notifications = "timeout"

\* ---- C13
\* C13: in a login that reaches handle_login_challenges, whatever happens in
\* the first dismissal (dialog absent, or any failure while dismissing it),
\* the second dismissal attempt runs and the login does not fail because of
\* the dialogs: its result is that of the final verification.
C13_Original ==
    call.fn = "login_instagram" /\ call.sc.submit =>
        /\ call.second_ran
        /\ call.ret <=> call.sc.verify = "found"

\* ---- C14
\* Process p took a step.
Acted(p) ==
    << pc[p], new_messages[p], processed_messages[p], obs[p], rsc_result[p], driver[p] >>'
        # << pc[p], new_messages[p], processed_messages[p], obs[p], rsc_result[p], driver[p] >>

InLoop(p) == pc[p] = "publish" /\ new_messages[p] # << >>

\* One iteration: the first message not yet iterated is consumed, whatever
\* add_to_buffer_fixed returned; the loop goes on, no id is forgotten and
\* neither file is touched.
LoopIteration(p) ==
    /\ new_messages'[p] = Tail(new_messages[p])
    /\ pc'[p] = "publish"
    /\ processed_messages[p] \subseteq processed_messages'[p]
    /\ UNCHANGED << cookies_file, session_file, persisted >>

\* The loop is left only with every message iterated, by a save_session call.
LoopExit(p) == new_messages[p] = << >> /\ obs'[p].save_calls = obs[p].save_calls + 1

\* C14: for every list of new messages and every pattern of publish failures,
\* each message is attempted once, in order; save_session is called after the
\* loop; and the run returns True.
C14_Original ==
    [][ \A p \in Procs :
          /\ InLoop(p) /\ Acted(p) => LoopIteration(p)
          /\ pc[p] = "publish" /\ pc'[p] # "publish" => LoopExit(p)
          /\ obs[p].scan_calls = 1 /\ pc'[p] = "exit" => rsc_result'[p] = "true" ]_vars

\* ---- C15
\* C15 (within one run): while the loop runs, the number of successful
\* add_to_buffer_fixed calls equals the number of ids published, i.e. no id
\* has been published twice; (across runs) no id of the session file that
\* the run loaded has been published again.
C15_Original ==
    \A p \in Procs :
        /\ pc[p] = "publish" => obs[p].processed_count = Cardinality(obs[p].published)
        /\ obs[p].read_session /\ pre[p].session.state = "ok" =>
               obs[p].published \cap LoadedProcessed(pre[p].session.data) = {}

\* ---- C16
\* The cookie file holds the browser's current cookies, written by this run.
CookiesWritten(p) ==
    obs[p].wrote_cookies /\ cookies_file = FileOf(GetCookies(jar[p]))

\* C16: a run in which smart_login returned True, through the probe or
\* through the login, has written the browser's cookies to the cookie file
\* by the time it ends.
C16_Original ==
    \A p \in Procs :
        pc[p] = "exit" /\ Returned(p, "true") => CookiesWritten(p)

\* ---- C17
\* C17: a process sets its exit code once, to 0 or 1; to 0 exactly when its
\* run_scheduled_check returned True; to 1 when it stops before the run
\* (missing environment variable, failed Buffer connection test) and when
\* smart_login returned False.
C17_ExitCodeReflectsRun ==
    [][ \A p \in Procs :
          exit_code'[p] # exit_code[p] =>
              /\ exit_code[p] = -1 /\ exit_code'[p] \in { 0, 1 }
              /\ exit_code'[p] = 0 <=> pc[p] = "exit" /\ rsc_result[p] = "true"
              /\ pc[p] = "idle" => exit_code'[p] = 1
              /\ sl_result[p] = "false" => exit_code'[p] = 1 ]_vars

\* One process has exited with 1 and a later one with 0 after a stored session.
C17_Witness ==
    \E p, q \in Procs :
        /\ pc[p] = "exited" /\ exit_code[p] = 1
        /\ pc[q] = "exited" /\ exit_code[q] = 0
        /\ persisted.valid

\* ---- C18
\* C18: whatever step fails, run_scheduled_check ends by returning a
\* boolean; no exception leaves it.
C18_Original ==
    \A p \in Procs :
        /\ rsc_result[p] # "raised"
        /\ pc[p] = "exit" => rsc_result[p] \in { "true", "false" }

\* ---- C19
\* C19: a save_session call never raises; it returns False whenever anything
\* failed while capturing or writing; and it returns True only if both files
\* were written in that call, the cookie file with the browser's cookies and
\* the session file with the processed ids.
C19_SaveSessionTotal ==
    call.fn = "save_session" =>
        /\ ~call.r.raised
        /\ call.fault # "none" => ~call.r.ret
        /\ call.r.ret =>
              /\ call.r.wrote_cookies /\ call.r.wrote_session
              /\ call.r.cookies_file = FileOf(GetCookies(call.jar))
              /\ call.r.session_file = FileOf(call.pmlist)

\* A call that returned True over two unreadable files, with something to store.
C19_Witness ==
    /\ call.fn = "save_session" /\ call.r.ret
    /\ call.cf = Corrupt /\ call.sf = Corrupt
    /\ call.jar # {} /\ call.pmlist # << >>

\* ---- C20
\* Process p makes a save_session call that returns True.
SavesSession(p) ==
    obs'[p].save_calls = obs[p].save_calls + 1 /\ obs'[p].save_ret = "true"

\* No other run has been in flight since run p started.
Alone(p) == \A q \in Procs \ {p} : pc[q] = "idle" \/ q \in pre[p].exited

\* C20: a successful save_session leaves in the session file exactly the
\* processed_messages of the run that made it, whatever another run stored
\* there meanwhile (last writer wins); when no other run was in flight since
\* the saving run started, every id stored before is still in the file.
C20_LastWriterWins ==
    [][ \A p \in Procs :
          SavesSession(p) =>
              /\ session_file'.state = "ok"
              /\ LoadedProcessed(session_file'.data) = processed_messages[p]
              /\ persisted.valid /\ Alone(p) =>
                     persisted.pm \subseteq LoadedProcessed(session_file'.data) ]_vars

\* A lost update: both runs published an id and saved with success; the
\* session file holds the ids of the run that saved last, and an id the
\* other run published and saved is not among them.
C20_Witness ==
    \E p, q \in Procs :
        /\ pc[q] = "exit" /\ obs[q].save_ret = "true" /\ rsc_result[q] = "true"
        /\ pc[p] = "finally" /\ obs[p].save_ret = "true" /\ obs[p].published # {}
        /\ session_file.state = "ok"
        /\ LoadedProcessed(session_file.data) = processed_messages[p]
        /\ \E id \in obs[q].published : id \notin LoadedProcessed(session_file.data)

\* ---- C21
\* C21: in sequential runs, as long as the session file is readable its set
\* of ids only grows: a step never removes an id from it, and a save_session
\* that returns True stores a superset of what load_session read when the
\* run started and of what the last successful save stored.
C21_ProcessedOnlyGrows ==
    [][ /\ session_file.state = "ok" /\ session_file'.state = "ok" =>
              LoadedProcessed(session_file.data) \subseteq LoadedProcessed(session_file'.data)
        /\ \A p \in Procs :
              SavesSession(p) =>
                  /\ pre[p].session.state = "ok" =>
                         LoadedProcessed(pre[p].session.data)
                             \subseteq LoadedProcessed(session_file'.data)
                  /\ persisted.valid => persisted.pm \subseteq persisted'.pm ]_vars

\* A later run whose load_session returned False after reading a non-empty
\* session file, and which a publish failure did not keep from publishing a
\* new id: its final save has stored the old ids and the new one.
C21_Witness ==
    \E p \in Procs :
        /\ pc[p] = "finally" /\ obs[p].save_ret = "true"
        /\ obs[p].load_ret = "false" /\ obs[p].read_session
        /\ pre[p].session.state = "ok" /\ pre[p].session.data # << >>
        /\ obs[p].published # {}
        /\ session_file.state = "ok"
        /\ LoadedProcessed(session_file.data)
               = LoadedProcessed(pre[p].session.data) \cup obs[p].published


\* ---------------------------------------------------------------------------
\* C22: a message id enters processed_messages only when the publish POST for
\* that message returned HTTP 200: a call of add_to_buffer_fixed with no
\* extractable URL, a non-200 response or an exception returns False and leaves
\* processed_messages unchanged, a 200 adds exactly that message's id; and in a
\* run the publish loop is entered, and a publish call made, only after
\* smart_login and navigate_to_dms both returned True in that run.
PublishCall(p) == InLoop(p) /\ Acted(p)

C22_OnlyPublishedIdsAreProcessed ==
    /\ [](call.fn = "add_to_buffer_fixed" =>
             /\ call.ret = (call.message.url /\ call.http = "200")
             /\ call.pm_after = IF call.message.url /\ call.http = "200"
                                THEN call.pm \cup {call.message.id}
                                ELSE call.pm)
    /\ [](\A p \in Procs :
             pc[p] \in {"scan", "publish"} =>
                 sl_result[p] = "true" /\ obs[p].nav = "true")
    /\ [][\A p \in Procs :
             /\ PublishCall(p) =>
                   /\ sl_result[p] = "true" /\ obs[p].nav = "true"
                   /\ processed_messages'[p] \in
                          { processed_messages[p],
                            processed_messages[p] \cup {Head(new_messages[p])} }
                   /\ processed_messages'[p] # processed_messages[p] =>
                          obs'[p].processed_count = obs[p].processed_count + 1
             /\ (pc[p] # "load" /\ ~PublishCall(p)) =>
                   processed_messages'[p] \subseteq processed_messages[p] ]_vars

C22_Witness ==
    /\ call.fn = "run_scheduled_check"
    /\ pc[1] = "publish"
    /\ sl_result[1] = "true" /\ obs[1].nav = "true"
    /\ obs[1].processed_count = 1
    /\ \E i \in Ids : obs[1].published = {i} /\ processed_messages[1] = {i}
    /\ new_messages[1] # << >>


\* ---------------------------------------------------------------------------
\* C23: on every path through run_scheduled_check on which a browser driver
\* was created (success, authentication failure, DM-navigation failure, an
\* exception in any step), driver.quit() is called exactly once, by the
\* finally clause as the last thing the run does, and so never before the
\* final save_session of a successful run: while the run is in its try block
\* the driver it created is live, and when the run is over it is not.
InTry(p) == pc[p] \notin { "idle", "setup", "finally", "exit", "exited" }

QuitCalled(p) == driver[p] # "quit" /\ driver'[p] = "quit"

C23_QuitOnceAtTheEnd ==
    /\ [](\A p \in Procs :
             /\ pc[p] = "exit" => driver[p] # "live"
             /\ driver[p] = "quit" => pc[p] = "exit"
             /\ InTry(p) /\ pc[p] # "sl_ret" => driver[p] = "live")
    /\ [][\A p \in Procs :
             /\ QuitCalled(p) =>
                   driver[p] = "live" /\ pc[p] = "finally" /\ pc'[p] = "exit"
             /\ pc[p] = "finally" /\ pc'[p] = "exit" /\ driver[p] = "live" => QuitCalled(p)
             /\ obs'[p].save_calls = obs[p].save_calls + 1 =>
                   driver[p] = "live" /\ driver'[p] = "live"
             /\ pc[p] = "publish" /\ pc'[p] = "finally" =>
                   /\ obs'[p].save_calls = obs[p].save_calls + 1
                   /\ rsc_result'[p] = "true" ]_vars

\* A successful run after its finally clause: saved, then quit.
C23_Witness ==
    \E p \in Procs :
        /\ pc[p] = "exit" /\ driver[p] = "quit"
        /\ rsc_result[p] = "true" /\ obs[p].save_ret = "true"
        /\ obs[p].published # {}

====
